---- MODULE Spec2Model ----
(***************************************************************************)
(* Layered configuration resolution and server-key bootstrap of lldap      *)
(* (server/src/infra/configuration.rs).                                    *)
(*                                                                         *)
(* Strings are TLA+ strings, except the key seed, which is a sequence of   *)
(* bytes so that is_empty() and the hash are computed.  Option<T> is a     *)
(* sequence of length 0 (None) or 1 (Some).  A file on disk is a record of *)
(* its bytes and of what this user may do with it.                         *)
(***************************************************************************)
EXTENDS Integers, Sequences, FiniteSets, TLC

\* ---------------------------------------------------------------- bounds
\* Number of payload bytes of a serialized server setup (each byte is a bit).
KeyLen == 1
\* Longest key seed, in bytes.
MaxSeedLen == 1
\* Number of source entries (file keys, environment variables, CLI flags)
\* one run of the layered resolution sets.
MaxEntries == 3
\* Number of entries (sources of key_file and key_seed, builder fields, key
\* files put in place by the operator) one run of the key bootstrap sets.
MaxKeyEntries == 4
\* Number of init / build calls (process starts) in one run of the model.
MaxCalls == 2

\* ---------------------------------------------------------------- Option
None == <<>>
Some(v) == <<v>>
IsSome(o) == o # <<>>
IsNone(o) == o = <<>>

\* ---------------------------------------------------------------- keys
RECURSIVE Pow2(_)
Pow2(n) == IF n = 0 THEN 1 ELSE 2 * Pow2(n - 1)

\* The values a ServerSetup can take.
KeySpace == 0 .. (Pow2(KeyLen) - 1)

SeedBytes == {1, 2}
Seeds == UNION {[1 .. n -> SeedBytes] : n \in 0 .. MaxSeedLen}

\* SHA-256 of the seed bytes, as a fold over the bytes at the key's width.
RECURSIVE hash(_)
hash(val) ==
    IF val = <<>> THEN 1
    ELSE (3 * hash(SubSeq(val, 1, Len(val) - 1)) + val[Len(val)]) % Pow2(KeyLen)

\* ChaCha20Rng::from_seed(h) followed by ServerSetup::new(&mut rng): the key
\* is a function of the generator's seed alone.
ServerSetupFromSeededRng(h) == (5 * h + 1) % Pow2(KeyLen)

\* generate_random_private_key: OsRng can produce any key.
generate_random_private_key == KeySpace

\* ServerSetup::serialize: a length prefix, then the payload, high bit first.
RECURSIVE Digits(_, _)
Digits(k, n) == IF n = 0 THEN <<>> ELSE Append(Digits(k \div 2, n - 1), k % 2)

serialize(k) == <<KeyLen>> \o Digits(k, KeyLen)

RECURSIVE Undigits(_)
Undigits(d) ==
    IF d = <<>> THEN 0 ELSE 2 * Undigits(SubSeq(d, 1, Len(d) - 1)) + d[Len(d)]

\* ServerSetup::deserialize: None stands for Err.
deserialize(bytes) ==
    IF /\ Len(bytes) = KeyLen + 1
       /\ bytes[1] = KeyLen
       /\ \A i \in 2 .. Len(bytes) : bytes[i] \in {0, 1}
    THEN Some(Undigits(SubSeq(bytes, 2, Len(bytes))))
    ELSE None

\* ---------------------------------------------------------------- files
DefaultKeyFile == "server_key"
Paths == {"server_key", "alt_key"}
NoFile == [present |-> FALSE, bytes |-> <<>>, readable |-> FALSE, writable |-> FALSE]

mkFile(bytes, readable, writable) ==
    [present |-> TRUE, bytes |-> bytes, readable |-> readable, writable |-> writable]

\* Path::exists
exists(fsys, path) == fsys[path].present

\* May this process open the file for writing?  root ignores the mode bits.
CanWrite(fsys, isRoot, path) == isRoot \/ fsys[path].writable

\* File::create succeeds: a new empty file, or the existing one truncated.
FileCreate(fsys, path) ==
    IF exists(fsys, path)
    THEN [fsys EXCEPT ![path].bytes = <<>>]
    ELSE [fsys EXCEPT ![path] = mkFile(<<>>, TRUE, TRUE)]

\* File::create is refused on an existing file this process may not write.
FileCreateFails(fsys, isRoot, path) ==
    exists(fsys, path) /\ ~CanWrite(fsys, isRoot, path)

\* set_readonly(true), set_mode(0o400), file.set_permissions
SetPermissions(fsys, path) ==
    [fsys EXCEPT ![path].readable = TRUE, ![path].writable = FALSE]

\* What n bytes of buffer written at offset 0 leave in a file holding old.
Overlay(old, buffer, n) ==
    SubSeq(buffer, 1, n) \o (IF Len(old) > n THEN SubSeq(old, n + 1, Len(old)) ELSE <<>>)

\* Faulty variant: the last byte of the buffer never reaches the file.
WriteAll_DropsLastByte(fsys, path, buffer, n) ==
    [fsys EXCEPT ![path].bytes =
        Overlay(fsys[path].bytes, buffer, IF n = Len(buffer) THEN n - 1 ELSE n)]

\* file.write_all through the open handle; n < Len(buffer) is a failed write.
WriteAll(fsys, path, buffer, n) ==
    [fsys EXCEPT ![path].bytes = Overlay(fsys[path].bytes, buffer, n)]

\* The outcomes of write_to_readonly_file run without interruption.  step is
\* the call that returned the error ("none" when all succeeded).
WriteOutcome(ok, panic, step, fsys) ==
    [ok |-> ok, panic |-> panic, step |-> step, fs |-> fsys]

write_to_readonly_file(fsys, isRoot, path, buffer) ==
    IF exists(fsys, path)
    THEN {WriteOutcome(FALSE, TRUE, "assert", fsys)}
    ELSE LET created == FileCreate(fsys, path)
             locked == SetPermissions(created, path)
         IN  {WriteOutcome(FALSE, FALSE, "create", fsys),
              WriteOutcome(FALSE, FALSE, "metadata", created),
              WriteOutcome(FALSE, FALSE, "set_permissions", created),
              WriteOutcome(TRUE, FALSE, "none",
                           WriteAll(locked, path, buffer, Len(buffer)))}
             \cup {WriteOutcome(FALSE, FALSE, "write_all",
                                WriteAll(locked, path, buffer, n)) :
                   n \in 0 .. (Len(buffer) - 1)}

\* ---------------------------------------------------------------- get_server_setup
\* Faulty variant: an existing key file is preferred to the seed.
PolicyOf_FileFirst(key_seed, fileExists) ==
    IF fileExists THEN "file"
    ELSE IF key_seed # <<>> THEN "seed"
    ELSE "generate"

\* The branch taken: the if / else if / else of get_server_setup.
PolicyOf(key_seed, fileExists) ==
    IF key_seed # <<>> THEN "seed"
    ELSE IF fileExists THEN "file"
    ELSE "generate"

\* One finished call: its arguments, the policies that ran, the returned
\* Result (None is Err), the file system it leaves, the notice printed for a
\* seed, whether the process panicked, and the number of write_all calls made.
SetupOutcome(file_path, key_seed, ran, ret, fsys, notice, panic, writes) ==
    [path |-> file_path, seed |-> key_seed, ran |-> ran, ret |-> ret, fs |-> fsys,
     notice |-> notice, panic |-> panic, writes |-> writes]

\* Faulty variant: the key is drawn from OsRng although a seed was given.
SeedBranch_OsRng(fsys, file_path, key_seed) ==
    {SetupOutcome(file_path, key_seed, {"seed"}, Some(k), fsys, "none", FALSE, 0) :
     k \in generate_random_private_key}

\* Faulty variant: the key derived from the seed is written to the key file.
SeedBranch_Persists(fsys, file_path, key_seed) ==
    LET k == ServerSetupFromSeededRng(hash(key_seed))
        locked == SetPermissions(FileCreate(fsys, file_path), file_path)
    IN  {SetupOutcome(file_path, key_seed, {"seed"}, Some(k),
                      [locked EXCEPT ![file_path].bytes = serialize(k)],
                      "none", FALSE, 0)}

\* hash, ChaCha20Rng::from_seed, ServerSetup::new: nothing else is read.
SeedBranch(fsys, file_path, key_seed) ==
    {SetupOutcome(file_path, key_seed, {"seed"},
                  Some(ServerSetupFromSeededRng(hash(key_seed))),
                  fsys,
                  IF file_path # DefaultKeyFile \/ exists(fsys, file_path)
                  THEN "warning" ELSE "info",
                  FALSE, 0)}

\* read(file_path)?, then ServerSetup::deserialize(&bytes)?
FileBranch(fsys, file_path, key_seed) ==
    IF ~fsys[file_path].readable
    THEN {SetupOutcome(file_path, key_seed, {"file"}, None, fsys, "none", FALSE, 0)}
    ELSE {SetupOutcome(file_path, key_seed, {"file"},
                       deserialize(fsys[file_path].bytes), fsys, "none", FALSE, 0)}

\* generate_random_private_key, then write_to_readonly_file(..)?
GenerateBranch(fsys, isRoot, file_path, key_seed) ==
    UNION {{SetupOutcome(file_path, key_seed, {"generate"},
                         IF w.ok THEN Some(k) ELSE None,
                         w.fs, "none", w.panic,
                         IF w.step \in {"none", "write_all"} THEN 1 ELSE 0) :
            w \in write_to_readonly_file(fsys, isRoot, file_path, serialize(k))} :
           k \in generate_random_private_key}

get_server_setup(fsys, isRoot, file_path, key_seed) ==
    LET policy == PolicyOf(key_seed, exists(fsys, file_path))
    IN  IF policy = "seed" THEN SeedBranch(fsys, file_path, key_seed)
        ELSE IF policy = "file" THEN FileBranch(fsys, file_path, key_seed)
        ELSE GenerateBranch(fsys, isRoot, file_path, key_seed)

\* ---------------------------------------------------------------- Configuration
TopKeys == {"ldap_port", "jwt_secret", "ldap_user_pass", "verbose", "key_file", "key_seed"}
SmtpKeys == {"server", "port", "tls_required"}

DefaultJwtSecret == "secretjwtsecret"
DefaultUserPass == "password"
DefaultLdapPort == 3890
DefaultSmtpPort == 587
MaxU16 == 65535

\* One layer of the Figment: each key is absent (None) or holds a value.
EmptyLayer == [top |-> [k \in TopKeys |-> None], smtp |-> [k \in SmtpKeys |-> None]]

\* Serialized::defaults(ConfigurationBuilder::default().private_build()):
\* the #[builder(default = ...)] of every field.
Defaults ==
    [top |-> [k \in TopKeys |->
                CASE k = "ldap_port" -> Some(DefaultLdapPort)
                  [] k = "jwt_secret" -> Some(DefaultJwtSecret)
                  [] k = "ldap_user_pass" -> Some(DefaultUserPass)
                  [] k = "verbose" -> Some(FALSE)
                  [] k = "key_file" -> Some(DefaultKeyFile)
                  [] k = "key_seed" -> Some(None)],
     smtp |-> [k \in SmtpKeys |->
                CASE k = "server" -> Some("localhost")
                  [] k = "port" -> Some(DefaultSmtpPort)
                  [] k = "tls_required" -> Some(None)]]

\* Keys whose name ends in _file: FileAdapter replaces such a key by the key
\* without the suffix, holding the contents of the named file, unless the key
\* is in ignore_keys.
FileSuffixKeys == {"key_file"}
ignore_keys == {"key_file", "cert_file"}

FileAdapterWrap(layer) ==
    [layer EXCEPT !.top = [k \in TopKeys |->
        IF k \in FileSuffixKeys \ ignore_keys THEN None ELSE layer.top[k]]]

\* Faulty variant: the lower layer wins.
MergeDict_LowerWins(lower, upper) ==
    [k \in DOMAIN lower |-> IF IsSome(lower[k]) THEN lower[k] ELSE upper[k]]

\* Figment::merge: a key of the upper layer replaces the lower layer's, and
\* nested dictionaries are merged key by key.
MergeDict(lower, upper) ==
    [k \in DOMAIN lower |-> IF IsSome(upper[k]) THEN upper[k] ELSE lower[k]]

\* Faulty variant: a layer that sets a key of smtp_options replaces the whole group,
\* the keys it does not set falling back to their defaults.
Merge_ReplacesGroup(lower, upper) ==
    [top |-> [k \in DOMAIN lower.top |->
                IF IsSome(upper.top[k]) THEN upper.top[k] ELSE lower.top[k]],
     smtp |-> IF \E k \in DOMAIN upper.smtp : IsSome(upper.smtp[k])
              THEN [k \in DOMAIN lower.smtp |->
                      IF IsSome(upper.smtp[k]) THEN upper.smtp[k] ELSE Defaults.smtp[k]]
              ELSE lower.smtp]

Merge(lower, upper) ==
    [top |-> MergeDict(lower.top, upper.top),
     smtp |-> MergeDict(lower.smtp, upper.smtp)]

IsU16(v) == v \in 0 .. MaxU16

\* Figment::extract into Configuration: Err (None) when a port is no u16.
extract(m) ==
    IF IsU16(m.top["ldap_port"][1]) /\ IsU16(m.smtp["port"][1])
    THEN Some([ldap_port |-> m.top["ldap_port"][1],
               jwt_secret |-> m.top["jwt_secret"][1],
               ldap_user_pass |-> m.top["ldap_user_pass"][1],
               verbose |-> m.top["verbose"][1],
               key_file |-> m.top["key_file"][1],
               key_seed |-> m.top["key_seed"][1],
               smtp_options |-> [server |-> m.smtp["server"][1],
                                 port |-> m.smtp["port"][1],
                                 tls_required |-> m.smtp["tls_required"][1]],
               server_setup |-> None])
    ELSE None

\* The command-line options: RunOpts, or TestEmailOpts, which has the general
\* and the SMTP options only.
Commands == {"run", "send_test_email"}
CliKeys == {"server_key_file", "server_key_seed", "ldap_port",
            "smtp_server", "smtp_port", "smtp_tls_required"}
SmtpCliKeys == {"smtp_server", "smtp_port", "smtp_tls_required"}
NoOpts == [verbose |-> FALSE, opt |-> [k \in CliKeys |-> None]]

\* impl ConfigOverrider for GeneralConfigOpts
GeneralOverride(opts, config) ==
    IF opts.verbose THEN [config EXCEPT !.verbose = TRUE] ELSE config

\* impl ConfigOverrider for SmtpOpts
SmtpOverride(opts, config) ==
    [config EXCEPT !.smtp_options =
        [server |-> IF IsSome(opts.opt["smtp_server"])
                    THEN opts.opt["smtp_server"][1] ELSE @.server,
         port |-> IF IsSome(opts.opt["smtp_port"])
                  THEN opts.opt["smtp_port"][1] ELSE @.port,
         tls_required |-> IF IsSome(opts.opt["smtp_tls_required"])
                          THEN Some(opts.opt["smtp_tls_required"][1])
                          ELSE @.tls_required]]

\* The fields RunOpts sets itself, between the general and the SMTP options.
RunFieldsOverride(opts, config) ==
    [config EXCEPT
        !.key_file = IF IsSome(opts.opt["server_key_file"])
                     THEN opts.opt["server_key_file"][1] ELSE @,
        !.key_seed = IF IsSome(opts.opt["server_key_seed"])
                     THEN Some(opts.opt["server_key_seed"][1]) ELSE @,
        !.ldap_port = IF IsSome(opts.opt["ldap_port"])
                      THEN opts.opt["ldap_port"][1] ELSE @]

\* impl ConfigOverrider for RunOpts / TestEmailOpts
override_config(command, opts, config) ==
    IF command = "run"
    THEN SmtpOverride(opts, RunFieldsOverride(opts, GeneralOverride(opts, config)))
    ELSE SmtpOverride(opts, GeneralOverride(opts, config))

\* Faulty variant: the deprecation notice looks at the flag's value.
Advisories_TlsTruthy(config) ==
    (IF config.jwt_secret = DefaultJwtSecret THEN {"jwt"} ELSE {})
    \cup (IF config.ldap_user_pass = DefaultUserPass THEN {"admin_pass"} ELSE {})
    \cup (IF config.smtp_options.tls_required = Some(TRUE)
          THEN {"tls_deprecated"} ELSE {})

\* The three println! at the end of init.
Advisories(config) ==
    (IF config.jwt_secret = DefaultJwtSecret THEN {"jwt"} ELSE {})
    \cup (IF config.ldap_user_pass = DefaultUserPass THEN {"admin_pass"} ELSE {})
    \cup (IF IsSome(config.smtp_options.tls_required) THEN {"tls_deprecated"} ELSE {})

\* key_seed.as_ref().map(SecUtf8::unsecure).unwrap_or_default()
UnwrapOrDefault(seedOpt) == IF IsSome(seedOpt) THEN seedOpt[1] ELSE <<>>

\* get_server_setup was not called.
NoSetup(fsys) == SetupOutcome(DefaultKeyFile, <<>>, {}, None, fsys, "none", FALSE, 0)

\* One finished call of init or build: the Result (None is Err), the
\* advisories printed, the configuration after the CLI overrides (None when
\* extract failed), and the get_server_setup call made.
CallOutcome(ret, advisories, final, setup) ==
    [ret |-> ret, advisories |-> advisories, final |-> final, setup |-> setup]

\* Faulty variant: the error of get_server_setup is dropped.
Finalize_IgnoresError(config, s, advisories) ==
    CallOutcome(Some([config EXCEPT !.server_setup = s.ret]), advisories,
                Some(config), s)

\* The end of init and of build: get_server_setup(..)? returns the error
\* before anything else is done; otherwise the key is stored, the advisories
\* are printed and the configuration is returned.
Finalize(config, s, advisories) ==
    IF IsNone(s.ret)
    THEN CallOutcome(None, {}, Some(config), s)
    ELSE CallOutcome(Some([config EXCEPT !.server_setup = s.ret]), advisories,
                     Some(config), s)

init(fsys, isRoot, command, fileLayer, envLayer, opts) ==
    LET merged == Merge(Merge(Defaults, FileAdapterWrap(fileLayer)),
                        FileAdapterWrap(envLayer))
        extracted == extract(merged)
    IN  IF IsNone(extracted)
        THEN {CallOutcome(None, {}, None, NoSetup(fsys))}
        ELSE LET config == override_config(command, opts, extracted[1])
                 seed == UnwrapOrDefault(config.key_seed)
             IN  {Finalize(config, s, Advisories(config)) :
                  s \in get_server_setup(fsys, isRoot, config.key_file, seed)}

\* ConfigurationBuilder::build on a builder whose key_file and key_seed were
\* set or not; every other field takes its default.
DefaultConfig == extract(Defaults)[1]

build(fsys, isRoot, key_file, key_seed) ==
    LET path == IF IsSome(key_file) THEN key_file[1] ELSE DefaultKeyFile
        seed == IF IsSome(key_seed) THEN UnwrapOrDefault(key_seed[1]) ELSE <<>>
        config == [DefaultConfig EXCEPT
                      !.key_file = path,
                      !.key_seed = IF IsSome(key_seed) THEN key_seed[1] ELSE None]
    IN  {Finalize(config, s, {}) : s \in get_server_setup(fsys, isRoot, path, seed)}

\* ---------------------------------------------------------------- inputs
\* A slot of a layer: a top-level key, or a key of smtp_options.
TopSlots == {<<"top", k>> : k \in TopKeys}
SmtpSlots == {<<"smtp", k>> : k \in SmtpKeys}
KeySlots == {<<"top", "key_file">>, <<"top", "key_seed">>}

Get(layer, slot) == IF slot[1] = "top" THEN layer.top[slot[2]] ELSE layer.smtp[slot[2]]
Put(layer, slot, v) ==
    IF slot[1] = "top"
    THEN [layer EXCEPT !.top[slot[2]] = Some(v)]
    ELSE [layer EXCEPT !.smtp[slot[2]] = Some(v)]

\* The values the model lets each source give each key.
FileValues(k) ==
    CASE k = "ldap_port" -> {389}
      [] k = "jwt_secret" -> {"filejwt"}
      [] k = "ldap_user_pass" -> {"filepass"}
      [] k = "verbose" -> {TRUE}
      [] k = "key_file" -> {"alt_key"}
      [] k = "key_seed" -> {Some(<<>>), Some(<<1>>)}
      [] k = "server" -> {"mail.file"}
      [] k = "port" -> {25}
      [] k = "tls_required" -> {Some(TRUE)}

EnvValues(k) ==
    CASE k = "ldap_port" -> {1389, 70000}
      [] k = "jwt_secret" -> {DefaultJwtSecret}
      [] k = "ldap_user_pass" -> {"envpass"}
      [] k = "verbose" -> {FALSE}
      [] k = "key_file" -> {DefaultKeyFile}
      [] k = "key_seed" -> {Some(<<2>>)}
      [] k = "server" -> {"mail.env"}
      [] k = "port" -> {2525}
      [] k = "tls_required" -> {Some(FALSE)}

CliValues(k) ==
    CASE k = "verbose" -> {TRUE}
      [] k = "server_key_file" -> {"alt_key"}
      [] k = "server_key_seed" -> {<<>>, <<1>>}
      [] k = "ldap_port" -> {3389}
      [] k = "smtp_server" -> {"mail.cli"}
      [] k = "smtp_port" -> {465}
      [] k = "smtp_tls_required" -> {FALSE}

\* The flags each command has.
FlagsOf(command) ==
    IF command = "run" THEN CliKeys \cup {"verbose"} ELSE SmtpCliKeys \cup {"verbose"}

\* Key files that may be put in place from outside: a valid read-only key
\* file, a writable file that is no serialized key, an unreadable file.
OperatorFiles ==
    {mkFile(serialize(0), TRUE, FALSE),
     mkFile(<<0>>, TRUE, TRUE),
     mkFile(serialize(1), FALSE, FALSE)}

\* Two servers started in the same directory.
Procs == {1, 2}

\* ---------------------------------------------------------------- state
VARIABLES
    fs,         \* the files at the key-file paths
    root,       \* does the server run as root?
    cmd,        \* the command whose options are given
    file,       \* the TOML file layer
    env,        \* the environment layer
    cli,        \* the command-line options
    builder,    \* a ConfigurationBuilder: its key_file and key_seed fields
    entries,    \* number of source entries set so far
    calls,      \* number of init / build calls so far
    result,     \* the latest call
    prev,       \* the get_server_setup call before the latest one
    generated,  \* per path, the key a fresh generation returned
    writes,     \* per path, the number of write_all calls made
    rpc,        \* per concurrent server, its place in get_server_setup
    rkey,       \* per concurrent server, the key it generated
    rret        \* per concurrent server, what get_server_setup returned

vars == <<fs, root, cmd, file, env, cli, builder, entries, calls, result, prev,
          generated, writes, rpc, rkey, rret>>

sources == <<cmd, file, env, cli, builder>>
history == <<prev, generated, writes>>
racers == <<rpc, rkey, rret>>

NoCall(fsys) ==
    [call |-> "none", fsBefore |-> fsys, genBefore |-> None,
     out |-> CallOutcome(None, {}, None, NoSetup(fsys))]

\* What is remembered of a get_server_setup call.
KeyRun(r) ==
    [called |-> r.out.setup.ran # {}, path |-> r.out.setup.path,
     seed |-> r.out.setup.seed, existed |-> exists(r.fsBefore, r.out.setup.path),
     ret |-> r.out.setup.ret]

InitCommon ==
    /\ fs = [p \in Paths |-> NoFile]
    /\ file = EmptyLayer
    /\ env = EmptyLayer
    /\ cli = NoOpts
    /\ builder = [key_file |-> None, key_seed |-> None]
    /\ entries = 0
    /\ calls = 0
    /\ result = NoCall(fs)
    /\ prev = KeyRun(NoCall(fs))
    /\ generated = [p \in Paths |-> None]
    /\ writes = [p \in Paths |-> 0]
    /\ rpc = [p \in Procs |-> "branch"]
    /\ rkey = [p \in Procs |-> 0]
    /\ rret = [p \in Procs |-> None]

\* The server is started with the run command, one server at a time: it
\* never opens a file that exists for writing, so root makes no difference.
Init == InitCommon /\ cmd = "run" /\ root = FALSE

\* Either command is given.
InitConfig == InitCommon /\ cmd \in Commands /\ root = FALSE

\* The sources are put in place before the server first starts.
Configure(max) ==
    /\ calls = 0
    /\ entries < max
    /\ entries' = entries + 1
    /\ result' = NoCall(fs')
    /\ UNCHANGED <<root, calls, history, racers>>

\* The operator writes a key into the TOML file.
SetFileKey(slots, max) ==
    /\ \E slot \in slots : \E v \in FileValues(slot[2]) :
            /\ IsNone(Get(file, slot))
            /\ file' = Put(file, slot, v)
    /\ UNCHANGED <<fs, cmd, env, cli, builder>>
    /\ Configure(max)

\* The operator sets LLDAP_<key> or LLDAP_smtp_options__<key>.
SetEnvVar(slots, max) ==
    /\ \E slot \in slots : \E v \in EnvValues(slot[2]) :
            /\ IsNone(Get(env, slot))
            /\ env' = Put(env, slot, v)
    /\ UNCHANGED <<fs, cmd, file, cli, builder>>
    /\ Configure(max)

\* The operator passes a flag the command has.
SetCliFlag(flags, max) ==
    /\ \E k \in flags \cap FlagsOf(cmd) : \E v \in CliValues(k) :
            IF k = "verbose"
            THEN /\ ~cli.verbose
                 /\ cli' = [cli EXCEPT !.verbose = TRUE]
            ELSE /\ IsNone(cli.opt[k])
                 /\ cli' = [cli EXCEPT !.opt[k] = Some(v)]
    /\ UNCHANGED <<fs, cmd, file, env, builder>>
    /\ Configure(max)

\* The builder's setters key_file(..) and key_seed(..).
SetBuilderField(max) ==
    /\ \E f \in {"key_file", "key_seed"} :
         \E v \in (IF f = "key_file" THEN Paths
                   ELSE {None} \cup {Some(x) : x \in Seeds}) :
            /\ IsNone(builder[f])
            /\ builder' = [builder EXCEPT ![f] = Some(v)]
    /\ UNCHANGED <<fs, cmd, file, env, cli>>
    /\ Configure(max)

\* The operator puts a key file in place where there is none.
PutKeyFile(max) ==
    /\ \E p \in Paths : \E f \in OperatorFiles :
            /\ ~exists(fs, p)
            /\ fs' = [fs EXCEPT ![p] = f]
    /\ UNCHANGED <<cmd, file, env, cli, builder>>
    /\ Configure(max)

\* What a finished call leaves in the state.
Finish(name, o) ==
    /\ calls' = calls + 1
    /\ result' = [call |-> name, fsBefore |-> fs,
                  genBefore |-> generated[o.setup.path], out |-> o]
    /\ fs' = o.setup.fs
    /\ prev' = KeyRun(result)
    /\ generated' =
         IF o.setup.ran = {"generate"} /\ IsSome(o.setup.ret)
         THEN [generated EXCEPT ![o.setup.path] = o.setup.ret]
         ELSE generated
    /\ writes' = [writes EXCEPT ![o.setup.path] = @ + o.setup.writes]
    /\ UNCHANGED <<root, sources, entries, racers>>

\* The server starts: init(overrides).
InitCall ==
    /\ calls < MaxCalls
    /\ \E o \in init(fs, root, cmd, file, env, cli) : Finish("init", o)

\* ConfigurationBuilder::build().
BuildCall ==
    /\ calls < MaxCalls
    /\ \E o \in build(fs, root, builder.key_file, builder.key_seed) : Finish("build", o)

\* The key bootstrap: every source of key_file and key_seed, an environment
\* value for a port, key files put in place by the operator, and starts of
\* the server.
Next ==
    \/ SetFileKey(KeySlots, MaxKeyEntries)
    \/ SetEnvVar(KeySlots \cup {<<"top", "ldap_port">>}, MaxKeyEntries)
    \/ SetCliFlag({"server_key_file", "server_key_seed"}, MaxKeyEntries)
    \/ SetBuilderField(MaxKeyEntries)
    \/ PutKeyFile(MaxKeyEntries)
    \/ InitCall
    \/ BuildCall

Spec == Init /\ [][Next]_vars

\* The layered resolution: every key of every source, and starts of the server.
NextConfig ==
    \/ SetFileKey(TopSlots \cup SmtpSlots, MaxEntries)
    \/ SetEnvVar(TopSlots \cup SmtpSlots, MaxEntries)
    \/ SetCliFlag(CliKeys \cup {"verbose"}, MaxEntries)
    \/ InitCall

SpecConfig == InitConfig /\ [][NextConfig]_vars

\* ---------------------------------------------------------------- concurrent starts
\* Two servers run get_server_setup("server_key", "") at the same time, one
\* system call at a step, while another process may create the file.
RacePath == DefaultKeyFile
RaceFrame == UNCHANGED <<root, sources, entries, calls, result, history>>

InitRace == InitCommon /\ cmd = "run" /\ root \in BOOLEAN

\* The if / else if / else: the file branch runs at once, the generating
\* branch draws its key.
RBranch(p) ==
    /\ rpc[p] = "branch"
    /\ LET policy == PolicyOf(<<>>, exists(fs, RacePath))
       IN  \/ /\ policy = "file"
              /\ \E o \in FileBranch(fs, RacePath, <<>>) :
                    /\ rret' = [rret EXCEPT ![p] = o.ret]
                    /\ rpc' = [rpc EXCEPT ![p] = IF IsSome(o.ret) THEN "done" ELSE "failed"]
              /\ UNCHANGED rkey
           \/ /\ policy = "generate"
              /\ \E k \in generate_random_private_key : rkey' = [rkey EXCEPT ![p] = k]
              /\ rpc' = [rpc EXCEPT ![p] = "assert"]
              /\ UNCHANGED rret
    /\ UNCHANGED fs
    /\ RaceFrame

\* assert!(!path.exists())
RAssert(p) ==
    /\ rpc[p] = "assert"
    /\ rpc' = [rpc EXCEPT ![p] = IF exists(fs, RacePath) THEN "panicked" ELSE "create"]
    /\ UNCHANGED <<fs, rkey, rret>>
    /\ RaceFrame

\* File::create(path)?
RCreate(p) ==
    /\ rpc[p] = "create"
    /\ \/ /\ ~FileCreateFails(fs, root, RacePath)
          /\ fs' = FileCreate(fs, RacePath)
          /\ rpc' = [rpc EXCEPT ![p] = "metadata"]
       \/ /\ FileCreateFails(fs, root, RacePath) \/ ~exists(fs, RacePath)
          /\ rpc' = [rpc EXCEPT ![p] = "failed"]
          /\ UNCHANGED fs
    /\ UNCHANGED <<rkey, rret>>
    /\ RaceFrame

\* file.metadata()?
RMetadata(p) ==
    /\ rpc[p] = "metadata"
    /\ \E next \in {"set_permissions", "failed"} : rpc' = [rpc EXCEPT ![p] = next]
    /\ UNCHANGED <<fs, rkey, rret>>
    /\ RaceFrame

\* file.set_permissions(permissions)?
RSetPermissions(p) ==
    /\ rpc[p] = "set_permissions"
    /\ \/ /\ fs' = SetPermissions(fs, RacePath)
          /\ rpc' = [rpc EXCEPT ![p] = "write_all"]
       \/ /\ rpc' = [rpc EXCEPT ![p] = "failed"]
          /\ UNCHANGED fs
    /\ UNCHANGED <<rkey, rret>>
    /\ RaceFrame

\* file.write_all(buffer): all of the buffer, or an error after n bytes.
RWriteAll(p) ==
    /\ rpc[p] = "write_all"
    /\ LET buffer == serialize(rkey[p])
       IN  \E n \in 0 .. Len(buffer) :
            /\ fs' = WriteAll(fs, RacePath, buffer, n)
            /\ rpc' = [rpc EXCEPT ![p] = IF n = Len(buffer) THEN "done" ELSE "failed"]
            /\ rret' = [rret EXCEPT ![p] = IF n = Len(buffer) THEN Some(rkey[p]) ELSE None]
    /\ UNCHANGED rkey
    /\ RaceFrame

\* Another process creates a file at the path.
OtherProcessCreates ==
    /\ ~exists(fs, RacePath)
    /\ \E f \in OperatorFiles : fs' = [fs EXCEPT ![RacePath] = f]
    /\ UNCHANGED racers
    /\ RaceFrame

NextRace ==
    \/ \E p \in Procs : RBranch(p)
    \/ \E p \in Procs : RAssert(p)
    \/ \E p \in Procs : RCreate(p)
    \/ \E p \in Procs : RMetadata(p)
    \/ \E p \in Procs : RSetPermissions(p)
    \/ \E p \in Procs : RWriteAll(p)
    \/ OtherProcessCreates

SpecRace == InitRace /\ [][NextRace]_vars

\* ---------------------------------------------------------------- properties
\* The latest call reached get_server_setup.
Called == result.call # "none" /\ IsSome(result.out.final)
Setup == result.out.setup
ExistedBefore == exists(result.fsBefore, Setup.path)
Returned == result.call # "none" /\ IsSome(result.out.ret)

\* C1: every call of get_server_setup runs exactly one of the three policies:
\* the seed policy if the seed is not empty, whether or not the file exists;
\* otherwise the file policy if the file exists; otherwise fresh generation.
\* init and build pass the empty seed when key_seed is absent, and an empty
\* seed is no seed.
C1_ExactlyOnePolicy ==
    Called =>
        /\ Cardinality(Setup.ran) = 1
        /\ Setup.seed # <<>> => Setup.ran = {"seed"}
        /\ Setup.seed = <<>> /\ ExistedBefore => Setup.ran = {"file"}
        /\ Setup.seed = <<>> /\ ~ExistedBefore => Setup.ran = {"generate"}
        /\ Setup.path = result.out.final[1].key_file
        /\ Setup.seed = (IF result.out.final[1].key_seed = None THEN <<>>
                         ELSE result.out.final[1].key_seed[1])
        /\ result.out.final[1].key_seed \in {None, Some(<<>>)} => "seed" \notin Setup.ran

C1_Witness ==
    /\ Called
    /\ Setup.seed # <<>>
    /\ ExistedBefore
    /\ Setup.ran = {"seed"}
    /\ prev.called /\ prev.seed = <<>> /\ prev.existed /\ prev.path = Setup.path

\* C2: for a fixed non-empty seed, get_server_setup returns the same key on
\* every call, whatever the path, the file at the path and the calls before:
\* two calls that agree on the seed agree on the key.
C2_SeedDeterminism ==
    Called /\ Setup.seed # <<>> =>
        /\ IsSome(Setup.ret)
        /\ prev.called /\ prev.seed = Setup.seed => prev.ret = Setup.ret

C2_Witness ==
    /\ Called
    /\ Setup.seed # <<>>
    /\ prev.called /\ prev.seed = Setup.seed
    /\ prev.path # Setup.path
    /\ prev.existed # ExistedBefore
    /\ prev.ret = Setup.ret

\* C3: only fresh generation touches the file system: when a seed is given,
\* or when the file exists and is read, every key file has the same existence,
\* bytes and mode after the call as before it.
C3_OnlyGenerateWrites ==
    Called /\ (Setup.seed # <<>> \/ ExistedBefore) =>
        /\ fs = result.fsBefore
        /\ Setup.writes = 0

C3_Witness ==
    /\ Called
    /\ Setup.seed # <<>>
    /\ ExistedBefore
    /\ fs = result.fsBefore
    /\ prev.called /\ prev.seed = <<>> /\ prev.existed /\ IsSome(prev.ret)

\* C4: the key-file write is create-exclusive: when a file has appeared at the
\* path by the time a generating resolution reaches File::create, the create
\* fails and the file is left as it is.
C4_CreateExclusive ==
    [][\A p \in Procs :
         rpc[p] = "create" /\ rpc'[p] # "create" /\ exists(fs, RacePath)
           => rpc'[p] = "failed" /\ fs' = fs]_vars

\* The value the highest layer that sets a slot gives it: CLI, then
\* environment, then file, then default.
Highest(cliOpt, slot) ==
    IF IsSome(cliOpt) THEN cliOpt[1]
    ELSE IF IsSome(Get(env, slot)) THEN Get(env, slot)[1]
    ELSE IF IsSome(Get(file, slot)) THEN Get(file, slot)[1]
    ELSE Get(Defaults, slot)[1]

OptionOf(cliOpt) == IF IsSome(cliOpt) THEN Some(Some(cliOpt[1])) ELSE None

\* C5: every field with a CLI override has, in the Configuration init returns,
\* the value of the highest layer that sets it, CLI over environment over
\* file over default; an absent CLI field leaves the merged value.
C5_Precedence ==
    result.call = "init" /\ Returned =>
        LET c == result.out.ret[1]
        IN  /\ c.ldap_port = Highest(cli.opt["ldap_port"], <<"top", "ldap_port">>)
            /\ c.key_file = Highest(cli.opt["server_key_file"], <<"top", "key_file">>)
            /\ c.key_seed = Highest(OptionOf(cli.opt["server_key_seed"]),
                                    <<"top", "key_seed">>)
            /\ c.verbose = Highest(IF cli.verbose THEN Some(TRUE) ELSE None,
                                   <<"top", "verbose">>)
            /\ c.smtp_options.server =
                 Highest(cli.opt["smtp_server"], <<"smtp", "server">>)
            /\ c.smtp_options.port = Highest(cli.opt["smtp_port"], <<"smtp", "port">>)
            /\ c.smtp_options.tls_required =
                 Highest(OptionOf(cli.opt["smtp_tls_required"]),
                         <<"smtp", "tls_required">>)

C5_Witness ==
    /\ result.call = "init" /\ Returned
    /\ IsSome(file.smtp["port"])
    /\ IsSome(env.smtp["port"])
    /\ IsSome(cli.opt["smtp_port"])
    /\ result.out.ret[1].smtp_options.port = 465
    /\ result.out.ret[1].ldap_port = 3890

\* C6: setting only smtp_options.port in the environment changes that field
\* alone: every other field of smtp_options keeps its file value, or its
\* default when the file does not set it.
C6_NestedKeyAlone ==
    /\ result.call = "init" /\ Returned
    /\ IsSome(env.smtp["port"])
    /\ \A k \in SmtpKeys \ {"port"} : IsNone(env.smtp[k])
    /\ \A k \in SmtpCliKeys : IsNone(cli.opt[k])
    => LET c == result.out.ret[1].smtp_options
       IN  /\ c.port = env.smtp["port"][1]
           /\ c.server = (IF IsSome(file.smtp["server"]) THEN file.smtp["server"][1]
                          ELSE "localhost")
           /\ c.tls_required = (IF IsSome(file.smtp["tls_required"])
                                THEN file.smtp["tls_required"][1] ELSE None)

C6_Witness ==
    /\ result.call = "init" /\ Returned
    /\ IsSome(env.smtp["port"])
    /\ \A k \in SmtpKeys \ {"port"} : IsNone(env.smtp[k])
    /\ \A k \in SmtpCliKeys : IsNone(cli.opt[k])
    /\ IsSome(file.smtp["server"])
    /\ IsNone(file.smtp["tls_required"])
    /\ result.out.ret[1].smtp_options =
         [server |-> "mail.file", port |-> 2525, tls_required |-> None]

\* C7: init and build return either an error and no Configuration, on every
\* failure of extraction or of the key resolution, or a Configuration whose
\* server_setup is Some.
C7_ServerSetupPresent ==
    result.call # "none" =>
        /\ Returned => IsSome(result.out.ret[1].server_setup)
        /\ IsNone(result.out.final) \/ IsNone(Setup.ret) => ~Returned

C7_Witness ==
    /\ result.call = "init"
    /\ Returned
    /\ IsSome(result.out.ret[1].server_setup)
    /\ prev.called /\ IsNone(prev.ret)

\* Each advisory is printed exactly when its condition holds on config.
AdvisoriesMatch(advisories, config) ==
    /\ "jwt" \in advisories <=> config.jwt_secret = "secretjwtsecret"
    /\ "admin_pass" \in advisories <=> config.ldap_user_pass = "password"
    /\ "tls_deprecated" \in advisories <=>
         config.smtp_options.tls_required \in {Some(TRUE), Some(FALSE)}

\* C8 as stated: in every resolution by init, each advisory is printed exactly
\* when its condition holds on the configuration after the CLI overrides.
C8_AdvisoriesEveryResolution ==
    result.call = "init" /\ IsSome(result.out.final) =>
        AdvisoriesMatch(result.out.advisories, result.out.final[1])

\* C8, amended: in every resolution by init that returns a Configuration, each
\* advisory is printed exactly when its condition holds on the configuration
\* after the CLI overrides; a resolution that fails prints none; and whether
\* init returns a Configuration is decided by the key resolution alone.
C8_AdvisoriesOnSuccess ==
    result.call = "init" =>
        /\ Returned => /\ AdvisoriesMatch(result.out.advisories, result.out.final[1])
                       /\ [result.out.ret[1] EXCEPT !.server_setup = None]
                            = result.out.final[1]
        /\ ~Returned => result.out.advisories = {}
        /\ IsSome(result.out.final) => (Returned <=> IsSome(Setup.ret))

C8_Witness ==
    /\ result.call = "init" /\ Returned
    /\ result.out.final[1].jwt_secret # "secretjwtsecret"
    /\ result.out.final[1].smtp_options.tls_required = Some(FALSE)
    /\ result.out.advisories = {"admin_pass", "tls_deprecated"}

\* C9: once a seedless resolution at a path has generated and persisted a key,
\* every later seedless resolution at that path takes the file policy, returns
\* the key first generated and writes nothing; the key file at a path is
\* written at most once.
C9_StableIdentity ==
    /\ \A p \in Paths : writes[p] <= 1
    /\ Called /\ Setup.seed = <<>> /\ IsSome(result.genBefore) =>
        /\ Setup.ran = {"file"}
        /\ Setup.ret = result.genBefore
        /\ Setup.writes = 0
        /\ fs = result.fsBefore

C9_Witness ==
    /\ Called /\ Setup.seed = <<>> /\ IsSome(result.genBefore)
    /\ Setup.ret = result.genBefore
    /\ writes[Setup.path] = 1
    /\ prev.called /\ ~prev.existed /\ prev.ret = Setup.ret

\* C10: a failed fresh generation leaves the file system as it was: no file
\* exists at the key-file path afterwards.
C10_FailedGenerateLeavesNoFile ==
    Called /\ Setup.seed = <<>> /\ ~ExistedBefore /\ IsNone(Setup.ret) =>
        /\ ~exists(fs, Setup.path)
        /\ fs = result.fsBefore

====
